---- MODULE Spec2Model ----
(***************************************************************************)
(* Model of the live-session mesh converter of connect-samples:            *)
(*   source/liveSession/Util.cpp  validPath                                *)
(*   source/liveSession/Mesh.cpp  convert, ParseSdfMaterial, UpdateMesh    *)
(*                                                                         *)
(* A std::string is a sequence of one-character strings.  One call of      *)
(* UpdateMesh is a small program: call[t].pc is its position, the fields   *)
(* of call[t] are its locals, and the stage (the prims of the USD scene)   *)
(* and the static counter of ParseSdfMaterial are shared by all calls.     *)
(***************************************************************************)
EXTENDS Integers, Sequences, FiniteSets, TLC

VARIABLES call, counter, stageGeom, stageMat, matLog, nCalls, vpIn, vpOut

vars == <<call, counter, stageGeom, stageMat, matLog, nCalls, vpIn, vpOut>>

(***************************************************************************)
(* Bounds of the model.                                                    *)
(***************************************************************************)
\* number of UpdateMesh calls in one behaviour
MaxCalls == 2
\* longest string handed to validPath in SpecValidPath
MaxLen == 3
\* largest IndexCount() of the one-submesh meshes
MaxIndexCount == 4

(***************************************************************************)
(* Strings.                                                                *)
(***************************************************************************)
Digits == {"1", "2"}
Punct == {".", "-", "<", ">", "[", "]"}
\* the characters validPath is tried on
Chars == {" ", "_", "/", "a", "A"} \cup Digits \cup Punct

RECURSIVE StrsOfLen(_)
StrsOfLen(n) ==
  IF n = 0 THEN {<<>>}
  ELSE {Append(s, c) : s \in StrsOfLen(n - 1), c \in Chars}

StrsUpTo(n) == UNION {StrsOfLen(k) : k \in 0..n}

\* std::string::find(key, pos) for a one-character key: the first index
\* (1-based) at or after pos holding key, 0 for npos
FindChar(s, key, pos) ==
  LET hits == {i \in pos..Len(s) : s[i] = key}
  IN IF hits = {} THEN 0 ELSE CHOOSE i \in hits : \A j \in hits : i <= j

\* gz::common::replaceAll(_orig, _key, _replacement) for a one-character
\* key: the loop "find from pos, replace, advance pos by the length of the
\* replacement (by 0 when the key is longer)"
RECURSIVE ReplaceFrom(_, _, _, _)
ReplaceFrom(s, pos, key, rep) ==
  LET at == FindChar(s, key, pos)
  IN IF at = 0 THEN s
     ELSE ReplaceFrom(SubSeq(s, 1, at - 1) \o rep \o SubSeq(s, at + 1, Len(s)),
                      at + (IF 1 > Len(rep) THEN 0 ELSE Len(rep)), key, rep)

replaceAll(s, key, rep) == ReplaceFrom(s, 1, key, rep)

\* result[0] of a std::string: the terminating NUL when the string is empty
FirstChar(s) == IF Len(s) = 0 THEN "NUL" ELSE s[1]

isdigit(c) == c \in {"0", "1", "2", "3", "4", "5", "6", "7", "8", "9"}

\* validPath as Util.cpp writes it, with the "]" pass left out
validPathNoBracket(_path) ==
  IF _path = <<>> THEN <<>>
  ELSE LET r1 == replaceAll(_path, " ", <<>>)
           r2 == replaceAll(r1, ".", <<"_">>)
           r3 == replaceAll(r2, "-", <<"_">>)
           r4 == replaceAll(r3, "<", <<"_">>)
           r5 == replaceAll(r4, ">", <<"_">>)
           r6 == replaceAll(r5, "[", <<"_">>)
       IN IF isdigit(FirstChar(r6)) THEN <<"_">> \o r6 ELSE r6

validPath(_path) ==
  IF _path = <<>> THEN <<>>
  ELSE LET r1 == replaceAll(_path, " ", <<>>)
           r2 == replaceAll(r1, ".", <<"_">>)
           r3 == replaceAll(r2, "-", <<"_">>)
           r4 == replaceAll(r3, "<", <<"_">>)
           r5 == replaceAll(r4, ">", <<"_">>)
           r6 == replaceAll(r5, "[", <<"_">>)
           r7 == replaceAll(r6, "]", <<"_">>)
       IN IF isdigit(FirstChar(r7)) THEN <<"_">> \o r7 ELSE r7

\* endsWith(str, suffix) of Mesh.cpp
endsWith(str, suffix) ==
  /\ Len(str) >= Len(suffix)
  /\ SubSeq(str, Len(str) - Len(suffix) + 1, Len(str)) = suffix

\* gz::common::lowercase on the letters the model uses
lowerChar(c) == IF c = "A" THEN "a" ELSE IF c = "B" THEN "b" ELSE c
lowercase(s) == [i \in 1..Len(s) |-> lowerChar(s[i])]

\* std::string::find(sub) != npos
Contains(s, sub) ==
  \E k \in 0..(Len(s) - Len(sub)) : SubSeq(s, k + 1, k + Len(sub)) = sub

(***************************************************************************)
(* The data UpdateMesh reads: gz::common materials, submeshes and meshes.  *)
(***************************************************************************)
\* gz::math::Color(0, 0, 0, 1) as <<r, g, b, a>>
Black == <<0, 0, 0, 1>>

EmptyPbr ==
  [type |-> "METAL", albedoMap |-> "", metalnessMap |-> "",
   normalMap |-> "", roughnessMap |-> ""]

\* the material registry of a loaded mesh, ignMesh->MaterialByIndex(k)
Materials ==
  << [emissive |-> Black, specular |-> Black, hasPbr |-> FALSE,
      pbr |-> EmptyPbr, textureImage |-> ""],
     [emissive |-> <<1, 0, 0, 1>>, specular |-> Black, hasPbr |-> FALSE,
      pbr |-> EmptyPbr, textureImage |-> ""],
     [emissive |-> Black, specular |-> <<0, 0, 0, 0>>, hasPbr |-> FALSE,
      pbr |-> EmptyPbr, textureImage |-> ""],
     [emissive |-> Black, specular |-> Black, hasPbr |-> TRUE,
      pbr |-> [EmptyPbr EXCEPT !.type = "SPECULAR"], textureImage |-> ""],
     [emissive |-> Black, specular |-> Black, hasPbr |-> FALSE,
      pbr |-> EmptyPbr, textureImage |-> "t.png"],
     [emissive |-> Black, specular |-> Black, hasPbr |-> TRUE,
      pbr |-> [EmptyPbr EXCEPT !.albedoMap = "d/a.png",
                               !.metalnessMap = "m.png"],
      textureImage |-> ""],
     [emissive |-> Black, specular |-> Black, hasPbr |-> TRUE,
      pbr |-> [EmptyPbr EXCEPT !.type = "SPECULAR",
                               !.normalMap = "d/e/n.png",
                               !.roughnessMap = "e/r.png"],
      textureImage |-> ""] >>

MaterialByIndex(k) == Materials[k + 1]

\* the cases of the switch on SubMeshPrimitiveType() that do not return,
\* were TRISTRIPS and LINESTRIPS to fall into the TRIANGLES and LINES cases
SupportedAndStrips == {"POINTS", "LINES", "TRIANGLES", "LINESTRIPS", "TRISTRIPS"}

\* the cases of the switch on SubMeshPrimitiveType() that do not return
Supported == {"POINTS", "LINES", "TRIANGLES"}

\* a submesh as SubMeshByIndex(i) hands it out: live is whether lock() of
\* the weak reference yields an object
SM(name, live, ptype, indexCount, materialIndex) ==
  [name |-> name, live |-> live, ptype |-> ptype,
   indexCount |-> indexCount, materialIndex |-> materialIndex]

\* the meshes MeshManager::Load can return: every supported topology with
\* every index count up to MaxIndexCount, and meshes with unsupported
\* topologies, expired submeshes, several submeshes, shared materials,
\* textures, submesh names that validPath maps to one string, and a submesh
\* name that starts with a digit
Assets ==
  { <<SM(<<"A">>, TRUE, t, n, -1)>> : t \in Supported, n \in 0..MaxIndexCount }
  \cup
  { <<>>,
    <<SM(<<"b">>, TRUE, "LINES", 3, 0)>>,
    <<SM(<<>>, TRUE, "POINTS", 2, 1)>>,
    <<SM(<<"A">>, TRUE, "TRISTRIPS", 3, 0)>>,
    <<SM(<<"A">>, TRUE, "TRIANGLES", 3, 5)>>,
    <<SM(<<"b">>, TRUE, "POINTS", 1, 6)>>,
    <<SM(<<"1", "a">>, TRUE, "LINES", 2, -1)>>,
    <<SM(<<"A">>, FALSE, "TRIANGLES", 3, 0)>>,
    <<SM(<<"A">>, TRUE, "TRIANGLES", 3, 3), SM(<<"b">>, TRUE, "LINES", 2, 3)>>,
    <<SM(<<"A">>, TRUE, "POINTS", 1, 4), SM(<<"b">>, TRUE, "TRIFANS", 3, 2)>>,
    <<SM(<<"A">>, TRUE, "LINESTRIPS", 2, 1),
      SM(<<"b">>, TRUE, "TRIANGLES", 5, 2)>>,
    <<SM(<<"A">>, FALSE, "TRIANGLES", 3, 0),
      SM(<<"b">>, TRUE, "TRIANGLES", 3, -1)>>,
    <<SM(<<"A">>, TRUE, "LINES", 4, -1), SM(<<"b">>, FALSE, "TRIANGLES", 3, 0)>>,
    <<SM(<<"A">>, TRUE, "TRIANGLES", 6, -1), SM(<<"b">>, TRUE, "POINTS", 1, 0),
      SM(<<"c">>, TRUE, "LINES", 2, -1)>>,
    <<SM(<<"c", ".">>, TRUE, "TRIANGLES", 3, -1),
      SM(<<"c", "_">>, TRUE, "LINES", 2, -1)>> }

\* the _path arguments of the calls
TargetPaths ==
  { <<"/", "w">>, <<"/", "w", "/", "a">>, <<"/", "w", "/", "B">>,
    <<"/", "w", "/", "a", "b">> }

Schemes == {"file", "http", "https"}

Threads == {1, 2}
\* the thread that makes the calls when the caller serializes them
SerialThreads == {1}

(***************************************************************************)
(* convert: gz::common::Material to sdf::Material.                         *)
(***************************************************************************)
\* convert, without the branch that builds a PBR record from TextureImage()
convertNoTexture(_in) ==
  [emissive |-> _in.emissive, specular |-> _in.specular,
   hasPbr |-> _in.hasPbr,
   pbr |-> IF _in.hasPbr
           THEN [_in.pbr EXCEPT !.albedoMap =
                   IF _in.pbr.albedoMap # "" THEN _in.pbr.albedoMap
                   ELSE _in.textureImage]
           ELSE EmptyPbr]

convert(_in) ==
  [emissive |-> _in.emissive, specular |-> _in.specular,
   hasPbr |-> _in.hasPbr \/ _in.textureImage # "",
   pbr |-> IF _in.hasPbr
           THEN [_in.pbr EXCEPT !.albedoMap =
                   IF _in.pbr.albedoMap # "" THEN _in.pbr.albedoMap
                   ELSE _in.textureImage]
           ELSE IF _in.textureImage # ""
           THEN [EmptyPbr EXCEPT !.type = "SPECULAR",
                                 !.albedoMap = _in.textureImage]
           ELSE EmptyPbr]

(***************************************************************************)
(* The textures of ParseSdfMaterial.  A map reference is a string of the   *)
(* material registry; "" is the empty reference.                           *)
(***************************************************************************)
\* gz::common::basename on the references of Materials: the last component
basename(_path) ==
  CASE _path = "t.png" -> "t.png"
    [] _path = "d/a.png" -> "a.png"
    [] _path = "m.png" -> "m.png"
    [] _path = "d/e/n.png" -> "n.png"
    [] _path = "e/r.png" -> "r.png"

\* gz::common::joinPaths of three components
joinPaths(a, b, c) == a \o "/" \o b \o "/" \o c

\* getMaterialCopyPath without the basename
getMaterialCopyPathWhole(_uri) == joinPaths("materials", "textures", _uri)

getMaterialCopyPath(_uri) == joinPaths("materials", "textures", basename(_uri))

\* gz::common::findFile(basename(map)), then the fallback on the reference
\* itself: found is whether findFile returned a path
fullnameOf(map, found) ==
  IF found THEN "/found/" \o basename(map) ELSE map

\* copyMaterial(_path, _fullPath): copied is what gz::common::copyFile
\* returns
copyMaterial(_path, _fullPath, copied) ==
  IF _path # "" /\ _fullPath # "" THEN copied ELSE FALSE

\* the four texture blocks of ParseSdfMaterial in the order of the code: the
\* getter of the workflow and the name of the shader input
TextureChannels ==
  << [map |-> "albedoMap", attr |-> "diffuse_texture"],
     [map |-> "metalnessMap", attr |-> "metallic_texture"],
     [map |-> "normalMap", attr |-> "normalmap_texture"],
     [map |-> "roughnessMap", attr |-> "reflectionroughness_texture"] >>

\* the blocks whose "if (!map.empty())" is taken
UsedChannel(materialSdf, ch) == materialSdf.hasPbr /\ materialSdf.pbr[ch.map] # ""

UsedChannels(materialSdf) ==
  {k \in 1..Len(TextureChannels) : UsedChannel(materialSdf, TextureChannels[k])}

\* the asset inputs CreateMaterialInput<SdfAssetPath> leaves on the shader
TextureInputs(materialSdf) ==
  [a \in {TextureChannels[k].attr : k \in UsedChannels(materialSdf)} |->
     LET k == CHOOSE j \in UsedChannels(materialSdf) :
                TextureChannels[j].attr = a
     IN getMaterialCopyPath(materialSdf.pbr[TextureChannels[k].map])]

\* the copyMaterial calls of one ParseSdfMaterial at /Looks/Material_<n>, in
\* order: found[k] and
\* copied[k] are what findFile and copyFile do for block k
RECURSIVE TextureCopiesFrom(_, _, _, _, _)
TextureCopiesFrom(n, materialSdf, found, copied, k) ==
  IF k > Len(TextureChannels) THEN <<>>
  ELSE IF k \notin UsedChannels(materialSdf)
  THEN TextureCopiesFrom(n, materialSdf, found, copied, k + 1)
  ELSE LET map == materialSdf.pbr[TextureChannels[k].map]
           copyPath == getMaterialCopyPath(map)
           fullname == fullnameOf(map, found[k])
       IN << [n |-> n, attr |-> TextureChannels[k].attr, src |-> fullname,
              dst |-> copyPath, found |-> found[k],
              ok |-> copyMaterial(copyPath, fullname, copied[k])] >>
          \o TextureCopiesFrom(n, materialSdf, found, copied, k + 1)

\* the condition of UpdateMesh under which the material is bound
ShouldBind(materialSdf) ==
  \/ materialSdf.emissive # Black
  \/ materialSdf.specular # Black
  \/ materialSdf.hasPbr

(***************************************************************************)
(* The face-vertex counts of one submesh.                                  *)
(***************************************************************************)
verticesPerFaceOf(ptype) ==
  IF ptype = "POINTS" THEN 1 ELSE IF ptype = "LINES" THEN 2 ELSE 3

\* numFaces with the division rounded up instead of down
numFacesCeil(ptype, indexCount) ==
  (indexCount + verticesPerFaceOf(ptype) - 1) \div verticesPerFaceOf(ptype)

numFacesOf(ptype, indexCount) ==
  IF ptype = "POINTS" THEN indexCount
  ELSE IF ptype = "LINES" THEN indexCount \div 2
  ELSE indexCount \div 3

\* the loop that pushes verticesPerFace numFaces times
faceVertexCountsOf(ptype, indexCount) ==
  [n \in 1..numFacesOf(ptype, indexCount) |-> verticesPerFaceOf(ptype)]

\* primName: _path + "/" + name, sanitized, one trailing "/" erased
primNameOf(_path, name) ==
  LET p == validPath(_path \o <<"/">> \o name)
  IN IF endsWith(p, <<"/">>) THEN SubSeq(p, 1, Len(p) - 1) ELSE p

(***************************************************************************)
(* State.                                                                  *)
(*   call[t]    the UpdateMesh call of thread t: position and locals       *)
(*   counter    static int i of ParseSdfMaterial                           *)
(*   stageGeom  the UsdGeomMesh prims of the stage, by path                *)
(*   stageMat   the prims /Looks/Material_<n> of the stage, by n           *)
(*   matLog     the material paths ParseSdfMaterial has produced, in order *)
(*   call[t].copies  the copyMaterial calls the call has made, in order    *)
(*   call[t].overlap whether another call has been in progress during this *)
(*                   one                                                   *)
(*   call[t].retry   whether the call repeats the call before it           *)
(*   call[t].first   for a retry: what the repeated call found and         *)
(*                   returned, and the stage and the counter it left       *)
(*   nCalls     calls begun                                                *)
(***************************************************************************)
\* a stage without prims
NoPrims == [x \in {} |-> 0]

\* what a retry keeps of the call it repeats, before there is one
NoFirst ==
  [located |-> FALSE, meshNull |-> TRUE, mesh |-> <<>>, result |-> "none",
   ret |-> 0, nFind |-> 0, geom |-> NoPrims, mats |-> NoPrims, counter |-> 0]

IdleCall ==
  [pc |-> "idle", home |-> TRUE, scheme |-> "file", path |-> <<>>,
   located |-> FALSE,
   meshNull |-> TRUE, mesh |-> <<>>, i |-> 0, flag |-> FALSE,
   result |-> "none", ret |-> 0, nFind |-> 0, nAddPath |-> 0, nLoad |-> 0,
   emits |-> <<>>, prim |-> <<>>, matPath |-> -1, tmp |-> 0,
   copies |-> <<>>, overlap |-> FALSE, retry |-> FALSE, first |-> NoFirst]

InitMain ==
  /\ call = [t \in Threads |-> IdleCall]
  /\ counter = 0
  /\ stageGeom = NoPrims
  /\ stageMat = NoPrims
  /\ matLog = <<>>
  /\ nCalls = 0

Init ==
  /\ InitMain
  /\ vpIn = <<>>
  /\ vpOut = [done |-> FALSE, val |-> <<>>]

\* "return res;" at the given line of Mesh.cpp
Ret(c, res, line) == [c EXCEPT !.pc = "done", !.result = res, !.ret = line]

mainVars == <<call, counter, stageGeom, stageMat, matLog, nCalls>>

(***************************************************************************)
(* UpdateMesh, step by step.                                               *)
(***************************************************************************)
\* the caller enters UpdateMesh(_meshMsg, _path, _stage), with HOME set or
\* not in the environment; calls are made one after the other
Begin(t) ==
  /\ nCalls < MaxCalls
  /\ \A u \in Threads : call[u].pc \in {"idle", "done"}
  /\ \E home \in BOOLEAN, scheme \in Schemes, path \in TargetPaths :
       call' = [call EXCEPT ![t] =
                  [IdleCall EXCEPT !.pc = "env", !.home = home,
                                   !.scheme = scheme, !.path = path]]
  /\ nCalls' = nCalls + 1
  /\ UNCHANGED <<counter, stageGeom, stageMat, matLog, vpIn, vpOut>>

\* gz::common::env("HOME", home, false), taken to succeed always
envAlways(c) == TRUE

\* gz::common::env("HOME", home, false)
env(c) == c.home

\* lines 600-606
CheckHome(t) ==
  /\ call[t].pc = "env"
  /\ call' = [call EXCEPT ![t] =
                IF env(@) THEN [@ EXCEPT !.pc = "resolve"]
                ELSE Ret(@, "false", 605)]
  /\ UNCHANGED <<counter, stageGeom, stageMat, matLog, nCalls, vpIn, vpOut>>

\* the http/https branch registers the cache directories (a fuel URI of
\* eight segments: two AddFilePaths); the other branch searches the file by
\* name and then by basename
Resolve(t) ==
  /\ call[t].pc = "resolve"
  /\ \/ /\ call[t].scheme \in {"http", "https"}
        /\ call' = [call EXCEPT ![t] =
                      [@ EXCEPT !.pc = "load", !.nAddPath = @ + 2]]
     \/ /\ call[t].scheme \notin {"http", "https"}
        /\ \E foundExact \in BOOLEAN, foundBase \in BOOLEAN :
             call' = [call EXCEPT ![t] =
                        IF foundExact
                        THEN [@ EXCEPT !.pc = "load", !.nFind = @ + 1,
                                       !.located = TRUE]
                        ELSE IF foundBase
                        THEN [@ EXCEPT !.pc = "load", !.nFind = @ + 2,
                                       !.located = TRUE]
                        ELSE Ret([@ EXCEPT !.nFind = @ + 2], "false", 639)]
  /\ UNCHANGED <<counter, stageGeom, stageMat, matLog, nCalls, vpIn, vpOut>>

\* MeshManager::Load(fullname): a mesh, or nullptr when there is no file at
\* fullname or the loader cannot read it
Load(t) ==
  /\ call[t].pc = "load"
  /\ \E located \in BOOLEAN :
       /\ call[t].scheme \notin {"http", "https"} => located = call[t].located
       /\ \/ /\ located
             /\ \E m \in Assets :
                  call' = [call EXCEPT ![t] =
                             [@ EXCEPT !.pc = "prepass", !.located = TRUE,
                                       !.nLoad = @ + 1, !.meshNull = FALSE,
                                       !.mesh = m]]
          \/ call' = [call EXCEPT ![t] =
                        [@ EXCEPT !.pc = "prepass", !.located = located,
                                  !.nLoad = @ + 1, !.meshNull = TRUE]]
  /\ UNCHANGED <<counter, stageGeom, stageMat, matLog, nCalls, vpIn, vpOut>>

\* the first loop over the submeshes (name-matching pass), from index i
\* (0-based): "true"/"false" for isUSDPathInSubMeshName, "ub" when the loop
\* calls Name() through a null shared pointer
RECURSIVE PrePassFrom(_, _, _)
PrePassFrom(mesh, path, i) ==
  IF i >= Len(mesh) THEN "false"
  ELSE IF Len(mesh) # 1
  THEN IF ~mesh[i + 1].live THEN "ub"
       ELSE IF Contains(lowercase(path), lowercase(mesh[i + 1].name))
       THEN "true"
       ELSE PrePassFrom(mesh, path, i + 1)
  ELSE PrePassFrom(mesh, path, i + 1)

\* lines 650-667.  ignMesh->SubMeshCount() on a null ignMesh and
\* subMesh->Name() on a null subMesh are undefined: the call crashes, or it
\* goes on with what it read (no submesh to iterate; either value of the flag)
PrePass(t) ==
  /\ call[t].pc = "prepass"
  /\ LET c == call[t]
         r == PrePassFrom(c.mesh, c.path, 0)
     IN \/ /\ ~c.meshNull /\ r # "ub"
           /\ call' = [call EXCEPT ![t] =
                         [@ EXCEPT !.pc = "loop", !.i = 0,
                                   !.flag = (r = "true")]]
        \/ /\ c.meshNull \/ r = "ub"
           /\ call' = [call EXCEPT ![t] = [@ EXCEPT !.pc = "crashed"]]
        \/ /\ c.meshNull
           /\ call' = [call EXCEPT ![t] = Ret(@, "true", 832)]
        \/ /\ ~c.meshNull /\ r = "ub"
           /\ \E garbage \in BOOLEAN :
                call' = [call EXCEPT ![t] =
                           [@ EXCEPT !.pc = "loop", !.i = 0,
                                     !.flag = garbage]]
  /\ UNCHANGED <<counter, stageGeom, stageMat, matLog, nCalls, vpIn, vpOut>>

\* the path filter comparing the names without lower-casing them
SkippedCaseSensitive(c, sub) ==
  /\ c.flag
  /\ Len(c.mesh) # 1
  /\ ~Contains(c.path, sub.name)

\* the path filter applied whatever the flag and the number of submeshes
SkippedByNameOnly(c, sub) ==
  ~Contains(lowercase(c.path), lowercase(sub.name))

\* the submesh is left out by the path filter (lines 684-697)
Skipped(c, sub) ==
  /\ c.flag
  /\ Len(c.mesh) # 1
  /\ ~Contains(lowercase(c.path), lowercase(sub.name))

\* Define and Set where Set on a prim already there adds the new face-vertex
\* counts and indices to those it has
DefineMeshAppend(stage, primName, sub) ==
  (primName :>
     [faceVertexCounts |->
        (IF primName \in DOMAIN stage THEN stage[primName].faceVertexCounts
         ELSE <<>>) \o faceVertexCountsOf(sub.ptype, sub.indexCount),
      nIndices |->
        (IF primName \in DOMAIN stage THEN stage[primName].nIndices ELSE 0)
        + sub.indexCount,
      binding |-> IF primName \in DOMAIN stage THEN stage[primName].binding
                  ELSE -1,
      scaled |-> IF primName \in DOMAIN stage THEN stage[primName].scaled
                 ELSE FALSE]) @@ stage

\* UsdGeomMesh::Define at primName and the Set of points, indices and
\* face-vertex counts (lines 770-790): a prim already at the path keeps its
\* binding and scale
DefineMesh(stage, primName, sub) ==
  (primName :>
     [faceVertexCounts |-> faceVertexCountsOf(sub.ptype, sub.indexCount),
      nIndices |-> sub.indexCount,
      binding |-> IF primName \in DOMAIN stage THEN stage[primName].binding
                  ELSE -1,
      scaled |-> IF primName \in DOMAIN stage THEN stage[primName].scaled
                 ELSE FALSE]) @@ stage

\* meshXformAPI.SetScale (line 828)
SetScale(stage, primName) ==
  [stage EXCEPT ![primName] = [@ EXCEPT !.scaled = TRUE]]

\* one iteration of the second loop up to the material (lines 669-794), or
\* the end of the loop and "return true"
SubMeshStep(t) ==
  /\ call[t].pc = "loop"
  /\ LET c == call[t]
         sub == c.mesh[c.i + 1]
         primName == primNameOf(c.path, sub.name)
         emit == [idx |-> c.i, prim |-> primName,
                  faceVertexCounts |->
                    faceVertexCountsOf(sub.ptype, sub.indexCount),
                  mat |-> -1, bound |-> FALSE]
     IN IF c.i >= Len(c.mesh)
        THEN /\ call' = [call EXCEPT ![t] = Ret(@, "true", 832)]
             /\ UNCHANGED stageGeom
        ELSE IF ~sub.live
        THEN /\ call' = [call EXCEPT ![t] = Ret(@, "false", 682)]
             /\ UNCHANGED stageGeom
        ELSE IF Skipped(c, sub)
        THEN /\ call' = [call EXCEPT ![t] = [@ EXCEPT !.i = @ + 1]]
             /\ UNCHANGED stageGeom
        ELSE IF sub.ptype \notin Supported
        THEN /\ call' = [call EXCEPT ![t] = Ret(@, "false", 753)]
             /\ UNCHANGED stageGeom
        ELSE IF sub.materialIndex # -1
        THEN /\ call' = [call EXCEPT ![t] =
                           [@ EXCEPT !.pc = "mat_name", !.prim = primName,
                                     !.emits = Append(@, emit)]]
             /\ stageGeom' = DefineMesh(stageGeom, primName, sub)
        ELSE /\ call' = [call EXCEPT ![t] =
                           [@ EXCEPT !.i = @ + 1, !.prim = primName,
                                     !.emits = Append(@, emit)]]
             /\ stageGeom' =
                  SetScale(DefineMesh(stageGeom, primName, sub), primName)
  /\ UNCHANGED <<counter, stageMat, matLog, nCalls, vpIn, vpOut>>

\* line 163 with a path that does not use the counter
MatNameFixed(t) ==
  /\ call[t].pc = "mat_name"
  /\ call' = [call EXCEPT ![t] =
                [@ EXCEPT !.pc = "mat_inc_load", !.matPath = 0]]
  /\ UNCHANGED <<counter, stageGeom, stageMat, matLog, nCalls, vpIn, vpOut>>

\* ParseSdfMaterial line 163: the path is built from the counter
MatName(t) ==
  /\ call[t].pc = "mat_name"
  /\ call' = [call EXCEPT ![t] =
                [@ EXCEPT !.pc = "mat_inc_load", !.matPath = counter]]
  /\ UNCHANGED <<counter, stageGeom, stageMat, matLog, nCalls, vpIn, vpOut>>

\* line 164, i++: the read of the counter
MatIncLoad(t) ==
  /\ call[t].pc = "mat_inc_load"
  /\ call' = [call EXCEPT ![t] =
                [@ EXCEPT !.pc = "mat_inc_store", !.tmp = counter]]
  /\ UNCHANGED <<counter, stageGeom, stageMat, matLog, nCalls, vpIn, vpOut>>

\* line 164 without the increment
MatIncStoreSame(t) ==
  /\ call[t].pc = "mat_inc_store"
  /\ counter' = call[t].tmp
  /\ call' = [call EXCEPT ![t] = [@ EXCEPT !.pc = "mat_define"]]
  /\ UNCHANGED <<stageGeom, stageMat, matLog, nCalls, vpIn, vpOut>>

\* line 164, i++: the write of the counter
MatIncStore(t) ==
  /\ call[t].pc = "mat_inc_store"
  /\ counter' = call[t].tmp + 1
  /\ call' = [call EXCEPT ![t] = [@ EXCEPT !.pc = "mat_define"]]
  /\ UNCHANGED <<stageGeom, stageMat, matLog, nCalls, vpIn, vpOut>>

\* the rest of ParseSdfMaterial (lines 166-518) and of the iteration (lines
\* 799-829): the material prim is defined unless one is at the path, the
\* shader is defined and filled, the material is bound when ShouldBind, the
\* scale is set.  The stage is one that accepts every Define and CreateInput,
\* so the returns of lines 184-512, 801 and 810 are not taken.  Each texture
\* block looks its file up and copies it, and whatever copyMaterial returns
\* the input is created.
MatDefine(t) ==
  /\ call[t].pc = "mat_define"
  /\ LET c == call[t]
         sub == c.mesh[c.i + 1]
         materialSdf == convert(MaterialByIndex(sub.materialIndex))
         n == c.matPath
         last == Len(c.emits)
     IN /\ stageMat' = (n :> [mat |-> materialSdf,
                              inputs |-> TextureInputs(materialSdf)])
                        @@ stageMat
        /\ matLog' = Append(matLog,
                            [n |-> n, new |-> n \notin DOMAIN stageMat,
                             thread |-> t, call |-> nCalls, idx |-> c.i,
                             overlap |-> c.overlap])
        /\ \E found \in [UsedChannels(materialSdf) -> BOOLEAN],
              copied \in [UsedChannels(materialSdf) -> BOOLEAN] :
             call' = [call EXCEPT ![t] =
                        [@ EXCEPT !.pc = "loop", !.i = @ + 1,
                                  !.emits[last].mat = n,
                                  !.emits[last].bound =
                                     ShouldBind(materialSdf),
                                  !.copies = @ \o
                                     TextureCopiesFrom(n, materialSdf, found,
                                                       copied, 1)]]
        /\ stageGeom' =
             SetScale(
               IF ShouldBind(materialSdf)
               THEN [stageGeom EXCEPT ![c.prim].binding = n]
               ELSE stageGeom,
               c.prim)
  /\ UNCHANGED <<counter, nCalls, vpIn, vpOut>>

Next ==
  \E t \in SerialThreads :
    \/ Begin(t)
    \/ CheckHome(t)
    \/ Resolve(t)
    \/ Load(t)
    \/ PrePass(t)
    \/ SubMeshStep(t)
    \/ MatName(t)
    \/ MatIncLoad(t)
    \/ MatIncStore(t)
    \/ MatDefine(t)

Spec == Init /\ [][Next]_vars

(***************************************************************************)
(* The caller retries: after a call has returned, UpdateMesh is called     *)
(* again with the same _meshMsg and _path on the same stage, in the same   *)
(* environment: HOME, the files findFile sees and the mesh Load returns    *)
(* are those of the first call.                                            *)
(***************************************************************************)
\* the first call of a behaviour
BeginFirst(t) == nCalls = 0 /\ Begin(t)

\* UpdateMesh is entered again with the arguments of the call that has
\* returned
BeginRetry(t) ==
  /\ nCalls < MaxCalls
  /\ call[t].pc = "done"
  /\ call' = [call EXCEPT ![t] =
                [IdleCall EXCEPT
                   !.pc = "env", !.home = call[t].home,
                   !.scheme = call[t].scheme, !.path = call[t].path,
                   !.retry = TRUE,
                   !.first = [located |-> call[t].located,
                              meshNull |-> call[t].meshNull,
                              mesh |-> call[t].mesh,
                              result |-> call[t].result,
                              ret |-> call[t].ret,
                              nFind |-> call[t].nFind,
                              geom |-> stageGeom, mats |-> stageMat,
                              counter |-> counter]]]
  /\ nCalls' = nCalls + 1
  /\ UNCHANGED <<counter, stageGeom, stageMat, matLog, vpIn, vpOut>>

\* Resolve, and in a retry findFile finds what it found before
ResolveRetry(t) ==
  /\ Resolve(t)
  /\ call[t].retry =>
       /\ call'[t].nFind = call[t].first.nFind
       /\ (call'[t].pc = "done") = (call[t].first.ret = 639)

\* Load, and in a retry MeshManager::Load returns what it returned before
LoadRetry(t) ==
  /\ Load(t)
  /\ call[t].retry =>
       /\ call'[t].located = call[t].first.located
       /\ call'[t].meshNull = call[t].first.meshNull
       /\ call'[t].mesh = call[t].first.mesh

NextRetry ==
  \E t \in SerialThreads :
    \/ BeginFirst(t)
    \/ BeginRetry(t)
    \/ CheckHome(t)
    \/ ResolveRetry(t)
    \/ LoadRetry(t)
    \/ PrePass(t)
    \/ SubMeshStep(t)
    \/ MatName(t)
    \/ MatIncLoad(t)
    \/ MatIncStore(t)
    \/ MatDefine(t)

SpecRetry == Init /\ [][NextRetry]_vars

(***************************************************************************)
(* UpdateMesh called from two threads with nothing to serialize the calls. *)
(* The steps of a call are those above; a thread enters UpdateMesh         *)
(* whatever the other thread is doing.  The static counter is read at line *)
(* 163 and read and written at line 164 with no lock and no atomic, so the *)
(* steps MatName, MatIncLoad and MatIncStore of the two threads interleave *)
(* in every order.  A call that has crashed has ended the process.         *)
(***************************************************************************)
\* the meshes of the concurrent calls: one material, and three materials
ConcAssets ==
  { <<SM(<<"A">>, TRUE, "TRIANGLES", 3, 1)>>,
    <<SM(<<"A">>, TRUE, "POINTS", 1, 0), SM(<<"b">>, TRUE, "LINES", 2, 2),
      SM(<<"c">>, TRUE, "TRIANGLES", 3, 1)>> }

\* the _path arguments of the concurrent calls
ConcPaths == { <<"/", "w">>, <<"/", "w", "/", "B">> }

InProgress(u) == call[u].pc \notin {"idle", "done", "crashed"}

\* thread t enters UpdateMesh; the calls in progress are marked as
\* overlapping with it, and it with them
BeginConc(t) ==
  /\ nCalls < MaxCalls
  /\ call[t].pc \in {"idle", "done"}
  /\ \E home \in BOOLEAN, path \in ConcPaths :
       call' = [u \in Threads |->
                  IF u = t
                  THEN [IdleCall EXCEPT
                          !.pc = "env", !.home = home, !.scheme = "file",
                          !.path = path,
                          !.overlap = \E v \in Threads \ {t} : InProgress(v)]
                  ELSE IF InProgress(u)
                  THEN [call[u] EXCEPT !.overlap = TRUE]
                  ELSE call[u]]
  /\ nCalls' = nCalls + 1
  /\ UNCHANGED <<counter, stageGeom, stageMat, matLog, vpIn, vpOut>>

\* MeshManager::Load(fullname) of a file that has been found
LoadConc(t) ==
  /\ call[t].pc = "load"
  /\ \E m \in ConcAssets :
       call' = [call EXCEPT ![t] =
                  [@ EXCEPT !.pc = "prepass", !.nLoad = @ + 1,
                            !.meshNull = FALSE, !.mesh = m]]
  /\ UNCHANGED <<counter, stageGeom, stageMat, matLog, nCalls, vpIn, vpOut>>

NextConc ==
  /\ \A u \in Threads : call[u].pc # "crashed"
  /\ \E t \in Threads :
       \/ BeginConc(t)
       \/ CheckHome(t)
       \/ Resolve(t)
       \/ LoadConc(t)
       \/ PrePass(t)
       \/ SubMeshStep(t)
       \/ MatName(t)
       \/ MatIncLoad(t)
       \/ MatIncStore(t)
       \/ MatDefine(t)

SpecConc == Init /\ [][NextConc]_vars

(***************************************************************************)
(* validPath on every string of up to MaxLen characters.                   *)
(***************************************************************************)
InitValidPath ==
  /\ InitMain
  /\ vpIn \in StrsUpTo(MaxLen)
  /\ vpOut = [done |-> FALSE, val |-> <<>>]

ApplyValidPath ==
  /\ ~vpOut.done
  /\ vpOut' = [done |-> TRUE, val |-> validPath(vpIn)]
  /\ UNCHANGED <<mainVars, vpIn>>

NextValidPath == ApplyValidPath

SpecValidPath == InitValidPath /\ [][NextValidPath]_vars

(***************************************************************************)
(* Properties.                                                             *)
(***************************************************************************)
\* the calls that have entered UpdateMesh
Active == {t \in Threads : call[t].pc # "idle"}

\* the (0-based) indices of the submeshes a call has emitted a prim for
EmittedIdx(c) == {c.emits[k].idx : k \in 1..Len(c.emits)}

\* verticesPerFace as the claim C1 gives it
ClaimVerticesPerFace(ptype) ==
  CASE ptype = "POINTS" -> 1 [] ptype = "LINES" -> 2 [] ptype = "TRIANGLES" -> 3

\* C1: every submesh emitted with topology POINTS, LINES or TRIANGLES has a
\* face-vertex-count array of length indexCount / verticesPerFace (integer
\* division) whose elements all equal verticesPerFace, and that array is the
\* one written to its prim
FaceVertexCountsUniform ==
  \A t \in Active :
    LET c == call[t]
    IN \A k \in 1..Len(c.emits) :
         LET e == c.emits[k]
             sub == c.mesh[e.idx + 1]
             vpf == ClaimVerticesPerFace(sub.ptype)
         IN /\ sub.ptype \in {"POINTS", "LINES", "TRIANGLES"}
            /\ Len(e.faceVertexCounts) = sub.indexCount \div vpf
            /\ \A j \in 1..Len(e.faceVertexCounts) : e.faceVertexCounts[j] = vpf
            /\ k = Len(c.emits) =>
                 /\ e.prim \in DOMAIN stageGeom
                 /\ stageGeom[e.prim].faceVertexCounts = e.faceVertexCounts
                 /\ stageGeom[e.prim].nIndices = sub.indexCount

\* C1 witness: a TRIANGLES submesh of 4 indices was emitted with the counts
\* <<3>>, and a LINES submesh of 3 indices with <<2>>
FaceVertexCountsWitness ==
  \E t \in Active :
    \E k \in 1..Len(call[t].emits) :
      LET e == call[t].emits[k]
          sub == call[t].mesh[e.idx + 1]
      IN /\ sub.ptype = "TRIANGLES" /\ sub.indexCount = 4
         /\ e.faceVertexCounts = <<3>>
         /\ stageGeom[e.prim].faceVertexCounts = <<3>>

\* the call stands at a live submesh that the path filter lets through and
\* whose topology is unsupported
AtUnsupported(c) ==
  /\ c.pc = "loop"
  /\ c.i < Len(c.mesh)
  /\ c.mesh[c.i + 1].live
  /\ c.flag /\ Len(c.mesh) # 1 =>
       Contains(lowercase(c.path), lowercase(c.mesh[c.i + 1].name))
  /\ c.mesh[c.i + 1].ptype \notin {"POINTS", "LINES", "TRIANGLES"}

\* what a call that returned at line 753 leaves behind: nothing emitted for
\* the submesh it stopped at or a later one, every prim emitted before
\* still on the stage with the material created for it
AfterUnsupported(c) ==
  c.pc = "done" /\ c.ret = 753 =>
    /\ c.result = "false"
    /\ \A k \in 1..Len(c.emits) :
         LET e == c.emits[k]
         IN /\ e.idx < c.i
            /\ e.prim \in DOMAIN stageGeom
            /\ stageGeom[e.prim].scaled
            /\ e.mat # -1 => e.mat \in DOMAIN stageMat
            /\ e.bound => stageGeom[e.prim].binding = e.mat
    /\ \A k \in 1..Len(matLog) :
         matLog[k].call = nCalls => matLog[k].idx < c.i

\* C2: a call that reaches a submesh of unsupported topology returns false
\* in its next step, and that step creates no prim, leaves every prim and
\* the material counter as they were; the prims emitted for the earlier
\* submeshes stay on the stage
UnsupportedTopologyAborts ==
  /\ [](\A t \in Active : AfterUnsupported(call[t]))
  /\ [][\A t \in Active :
          AtUnsupported(call[t]) /\ call'[t] # call[t] =>
            /\ call'[t] = Ret(call[t], "false", 753)
            /\ UNCHANGED <<stageGeom, stageMat, counter, matLog>>]_vars

\* C2 witness: a call returned false at its second submesh, of unsupported
\* topology, after it emitted the first one and a material for it
UnsupportedTopologyWitness ==
  \E t \in Active :
    /\ call[t].pc = "done" /\ call[t].ret = 753 /\ call[t].i = 1
    /\ Len(call[t].emits) = 1
    /\ call[t].emits[1].mat # -1
    /\ call[t].emits[1].prim \in DOMAIN stageGeom

\* the (0-based) indices of the submeshes whose lower-cased name is a
\* substring of the lower-cased target path
NameInPath(c) ==
  {k \in 0..(Len(c.mesh) - 1) :
     Contains(lowercase(c.path), lowercase(c.mesh[k + 1].name))}

\* the submeshes the claim C3 says are emitted
ClaimSelected(c) ==
  IF NameInPath(c) # {} THEN NameInPath(c) ELSE 0..(Len(c.mesh) - 1)

AllLive(c) == \A k \in 1..Len(c.mesh) : c.mesh[k].live

\* C3 as stated: every finished call on an asset of several (dereferenceable)
\* submeshes has emitted exactly the submeshes named in the path, or all of
\* them when none is named
SelectionExactAlways ==
  \A t \in Active :
    LET c == call[t]
    IN c.pc = "done" /\ ~c.meshNull /\ Len(c.mesh) > 1 /\ AllLive(c) =>
         EmittedIdx(c) = ClaimSelected(c)

\* C3 amended: a call that returns true on an asset of several submeshes has
\* emitted exactly the submeshes named in the path, or all of them when none
\* is named, each once
SelectionExactOnSuccess ==
  \A t \in Active :
    LET c == call[t]
    IN ~c.meshNull /\ Len(c.mesh) > 1 /\ c.pc = "done" /\ c.result = "true" =>
         /\ EmittedIdx(c) = ClaimSelected(c)
         /\ Len(c.emits) = Cardinality(ClaimSelected(c))
         /\ \A k \in 1..Len(c.emits) : c.emits[k].prim \in DOMAIN stageGeom

\* C3 witness: a call returned true on an asset of three submeshes, two of
\* them named in the path (one by a name in another case), after emitting
\* those two only
SelectionWitness ==
  \E t \in Active :
    LET c == call[t]
    IN /\ c.pc = "done" /\ c.result = "true"
       /\ Len(c.mesh) = 3
       /\ EmittedIdx(c) = {0, 1}
       /\ c.mesh[1].name = <<"A">> /\ c.path = <<"/", "w", "/", "a", "b">>

\* C4 as stated: every finished call on an asset of one submesh has emitted
\* exactly one prim
SingleSubMeshAlwaysOne ==
  \A t \in Active :
    LET c == call[t]
    IN c.pc = "done" /\ ~c.meshNull /\ Len(c.mesh) = 1 =>
         Len(c.emits) = 1

\* C4 amended: on an asset of one submesh the path filter never skips the
\* submesh; the call emits exactly one prim and returns true when the
\* submesh is dereferenceable and of supported topology, and emits none and
\* returns false otherwise
SingleSubMeshNeverSkipped ==
  \A t \in Active :
    LET c == call[t]
    IN ~c.meshNull /\ Len(c.mesh) = 1 /\ c.pc = "done" =>
         LET sub == c.mesh[1]
         IN IF sub.live /\ sub.ptype \in {"POINTS", "LINES", "TRIANGLES"}
            THEN /\ c.result = "true"
                 /\ Len(c.emits) = 1
                 /\ c.emits[1].idx = 0
                 /\ c.emits[1].prim \in DOMAIN stageGeom
            ELSE /\ c.result = "false"
                 /\ c.emits = <<>>

\* C4 witness: a call on an asset of one submesh whose name is not in the
\* path, with the flag of the filter clear, returned true with one prim
SingleSubMeshWitness ==
  \E t \in Active :
    LET c == call[t]
    IN /\ c.pc = "done" /\ c.result = "true"
       /\ Len(c.mesh) = 1 /\ Len(c.emits) = 1
       /\ ~Contains(lowercase(c.path), lowercase(c.mesh[1].name))

\* the material histories of C5: the k-th material emission of the process
\* is new and is at /Looks/Material_<k-1>, the stage holds exactly these
\* material prims, and the counter is the number of emissions (one less
\* between the naming and the increment, one more between the increment and
\* the Define)
MaterialNamesSequential ==
  /\ \A k \in 1..Len(matLog) : matLog[k].n = k - 1 /\ matLog[k].new
  /\ \A j, k \in 1..Len(matLog) : j # k => matLog[j].n # matLog[k].n
  /\ DOMAIN stageMat = {matLog[k].n : k \in 1..Len(matLog)}
  /\ counter \in {Len(matLog), Len(matLog) + 1}
  /\ \A t \in Active :
       LET c == call[t]
       IN /\ c.pc \in {"mat_inc_load", "mat_inc_store"} =>
               c.matPath = counter /\ counter = Len(matLog)
          /\ c.pc = "mat_define" =>
               c.matPath = counter - 1 /\ counter = Len(matLog) + 1
          /\ c.pc \notin {"mat_define"} => counter = Len(matLog)
          /\ \A k \in 1..Len(c.emits) :
               LET e == c.emits[k]
                   declares == c.mesh[e.idx + 1].materialIndex # -1
               IN /\ ~declares => e.mat = -1
                  /\ declares /\ (k < Len(c.emits) \/ c.pc \in {"loop", "done"})
                       => /\ e.mat \in DOMAIN stageMat
                          /\ \E j \in 1..Len(matLog) :
                               /\ matLog[j].n = e.mat
                               /\ matLog[j].call = nCalls
                               /\ matLog[j].idx = e.idx
                  /\ \A j \in 1..Len(c.emits) :
                       j < k /\ c.emits[j].mat # -1 /\ e.mat # -1 =>
                         c.emits[j].mat < e.mat

\* C5: under serialized calls every emitted submesh that declares a
\* material index gets one new prim /Looks/Material_<n>, n the counter, which
\* is then incremented by one; the counter never decreases and no call
\* resets it, so no two material emissions share a path
MaterialCounterMonotonic ==
  /\ []MaterialNamesSequential
  /\ [][/\ counter' >= counter
        /\ counter' # counter => counter' = counter + 1
        /\ Len(matLog') > Len(matLog) =>
             /\ Len(matLog') = Len(matLog) + 1
             /\ matLog'[Len(matLog')].n = counter - 1
             /\ DOMAIN stageMat' = DOMAIN stageMat \cup {counter - 1}
             /\ counter - 1 \notin DOMAIN stageMat
        /\ nCalls' # nCalls => counter' = counter]_vars

\* C5 witness: two submeshes with the same material index, emitted in one
\* call after an earlier call emitted a material, got Material_1 and
\* Material_2
MaterialCounterWitness ==
  \E t \in Active :
    LET c == call[t]
    IN /\ c.pc = "done" /\ Len(c.emits) = 2 /\ nCalls = 2
       /\ c.mesh[1].materialIndex = c.mesh[2].materialIndex
       /\ c.emits[1].mat = 1 /\ c.emits[2].mat = 2
       /\ matLog[1].call = 1
       /\ counter = 3

\* the binding condition as the claim C6 gives it, on the material of the
\* asset: emissive or specular off (0,0,0,1), a PBR record, or a legacy
\* texture image (from which a PBR record is made)
ClaimBinds(material) ==
  \/ material.emissive # <<0, 0, 0, 1>>
  \/ material.specular # <<0, 0, 0, 1>>
  \/ material.hasPbr
  \/ material.textureImage # ""

\* C6: for every emitted submesh with a material index, the material prim
\* created for it is bound to the prim of the submesh if and only if the
\* material has non-default emissive or specular or a PBR record (also the
\* one made from a texture image); no prim is bound to a material with
\* default emissive and specular and no PBR record
BoundIffNonDefault ==
  /\ \A t \in Active :
       LET c == call[t]
       IN \A k \in 1..Len(c.emits) :
            LET e == c.emits[k]
                sub == c.mesh[e.idx + 1]
            IN sub.materialIndex # -1
               /\ (k < Len(c.emits) \/ c.pc \in {"loop", "done"}) =>
                 /\ e.mat \in DOMAIN stageMat
                 /\ e.bound <=> ClaimBinds(Materials[sub.materialIndex + 1])
                 /\ k = Len(c.emits) =>
                      (stageGeom[e.prim].binding = e.mat <=> e.bound)
  /\ \A p \in DOMAIN stageGeom :
       stageGeom[p].binding # -1 =>
         LET m == stageMat[stageGeom[p].binding].mat
         IN m.emissive # <<0, 0, 0, 1>> \/ m.specular # <<0, 0, 0, 1>>
            \/ m.hasPbr

\* C6 witness: one call emitted a submesh whose material has only a texture
\* image and bound the material, and another emitted a submesh whose
\* material is all default and left it unbound
BoundWitness ==
  /\ \E t \in Active :
       LET c == call[t]
       IN /\ c.pc = "done" /\ Len(c.emits) = 1
          /\ c.mesh[1].materialIndex = 0
          /\ ~c.emits[1].bound /\ c.emits[1].mat \in DOMAIN stageMat
          /\ stageGeom[c.emits[1].prim].binding # c.emits[1].mat
  /\ \E p \in DOMAIN stageGeom :
       /\ stageGeom[p].binding # -1
       /\ LET m == stageMat[stageGeom[p].binding].mat
          IN m.emissive = Black /\ m.specular = Black /\ m.hasPbr
             /\ m.pbr.albedoMap = "t.png"

\* the reference of C7: drop the spaces, put "_" for each of . - < > [ ],
\* prepend "_" when the first character is a digit
RefNoSpace(s) == SelectSeq(s, LAMBDA ch : ch # " ")

RefUnderscored(s) ==
  [i \in 1..Len(s) |->
     IF s[i] \in {".", "-", "<", ">", "[", "]"} THEN "_" ELSE s[i]]

RefValidPath(s) ==
  LET r == RefUnderscored(RefNoSpace(s))
  IN IF r # <<>> /\ r[1] \in {"0", "1", "2", "3", "4", "5", "6", "7", "8", "9"}
     THEN <<"_">> \o r
     ELSE r

\* C7: validPath returns, for every string, what the reference returns: the
\* empty string for the empty string and for a string of spaces,
\* "MyMesh_1_2" for "My Mesh-1.2" and "_1mesh" for "1mesh"
ValidPathMatchesReference ==
  /\ vpOut.done => vpOut.val = RefValidPath(vpIn)
  /\ vpOut.done /\ RefNoSpace(vpIn) = <<>> => vpOut.val = <<>>
  /\ validPath(<<"M", "y", " ", "M", "e", "s", "h", "-", "1", ".", "2">>)
       = <<"M", "y", "M", "e", "s", "h", "_", "1", "_", "2">>
  /\ validPath(<<"1", "m", "e", "s", "h">>) = <<"_", "1", "m", "e", "s", "h">>

\* C7 witness: validPath was applied to a string of spaces and returned the
\* empty string
ValidPathWitness ==
  /\ vpOut.done
  /\ vpIn = <<" ", " ">>
  /\ vpOut.val = <<>>

\* what holds of a call made with HOME unset: it is at the check of HOME or
\* has returned false from it, and has searched no file, registered no
\* search path, loaded no asset and emitted nothing
HomeUnsetState(c) ==
  ~c.home =>
    /\ c.pc \in {"env", "done"}
    /\ c.pc = "done" => c.result = "false" /\ c.ret = 605
    /\ c.nFind = 0 /\ c.nAddPath = 0 /\ c.nLoad = 0
    /\ c.meshNull
    /\ c.emits = <<>>

\* C8: with HOME unset UpdateMesh returns false at once: no file search, no
\* search path registered, no asset loaded, no prim created, and the
\* material counter as it was
HomeUnsetFailsFirst ==
  /\ [](\A t \in Active : HomeUnsetState(call[t]))
  /\ [][\A t \in Active :
          ~call[t].home /\ call'[t] # call[t] /\ call[t].pc # "done" =>
            /\ call'[t] = Ret(call[t], "false", 605)
            /\ UNCHANGED <<stageGeom, stageMat, counter, matLog>>]_vars

\* C8 witness: after a call that left prims and materials on the stage, a
\* call made with HOME unset has returned false
HomeUnsetWitness ==
  \E t \in Active :
    /\ ~call[t].home /\ call[t].pc = "done" /\ call[t].result = "false"
    /\ nCalls = 2 /\ counter > 0 /\ DOMAIN stageGeom # {}

\* C9: a call whose asset file was not located (local reference: both
\* searches empty; http/https reference: no file at the cache path) ends by
\* returning false to the caller, with no prim created
AssetNotLocatedFails ==
  \A t \in Active :
    LET c == call[t]
    IN c.home /\ ~c.located /\ c.pc \in {"done", "crashed"} =>
         /\ c.pc = "done"
         /\ c.result = "false"
         /\ c.emits = <<>>

\* C10: a finished call on an asset with a submesh that cannot be
\* dereferenced has returned false (it has not crashed on the null pointer),
\* be the asset of one or of several submeshes
ExpiredSubMeshFails ==
  \A t \in Active :
    LET c == call[t]
    IN /\ ~c.meshNull
       /\ \E k \in 1..Len(c.mesh) : ~c.mesh[k].live
       /\ c.pc \in {"done", "crashed"}
       => c.pc = "done" /\ c.result = "false"

(***************************************************************************)
(* C11                                                                     *)
(***************************************************************************)
\* the texture path the claim C11 gives for a map reference
ClaimTexturePath(map) == "materials/textures/" \o basename(map)

\* the copies a call has made for the input attr of /Looks/Material_<n>
CopiesFor(c, n, attr) ==
  {k \in 1..Len(c.copies) : c.copies[k].n = n /\ c.copies[k].attr = attr}

\* every material on the stage has, for each channel, the texture input of
\* the claim when the map reference is non-empty and none when it is empty
TextureInputsAsClaimed ==
  \A n \in DOMAIN stageMat :
    \A k \in 1..Len(TextureChannels) :
      LET ch == TextureChannels[k]
          map == stageMat[n].mat.pbr[ch.map]
          inputs == stageMat[n].inputs
      IN IF map # ""
         THEN ch.attr \in DOMAIN inputs /\ inputs[ch.attr] = ClaimTexturePath(map)
         ELSE ch.attr \notin DOMAIN inputs

\* a call has copied once for each non-empty channel of each material it
\* has parsed, from the file found or else from the reference itself, and
\* not at all for an empty channel; the input is there whether the copy
\* succeeded or not
TextureCopiesAsClaimed ==
  \A t \in Active :
    LET c == call[t]
    IN /\ \A j \in 1..Len(c.emits) :
            c.emits[j].mat # -1 /\ (j < Len(c.emits) \/ c.pc \in {"loop", "done"}) =>
              \A k \in 1..Len(TextureChannels) :
                LET ch == TextureChannels[k]
                    map == stageMat[c.emits[j].mat].mat.pbr[ch.map]
                IN Cardinality(CopiesFor(c, c.emits[j].mat, ch.attr)) =
                     IF map # "" THEN 1 ELSE 0
       /\ \A k \in 1..Len(c.copies) :
            LET e == c.copies[k]
                m == stageMat[e.n]
            IN /\ e.attr \in DOMAIN m.inputs
               /\ m.inputs[e.attr] = e.dst
               /\ \E j \in 1..Len(TextureChannels) :
                    /\ TextureChannels[j].attr = e.attr
                    /\ ~e.found => e.src = m.mat.pbr[TextureChannels[j].map]

\* a call that returns false returns from a line that is not about textures
NoTextureReturn ==
  \A t \in Active :
    call[t].pc = "done" /\ call[t].result = "false" =>
      call[t].ret \in {605, 639, 682, 753}

\* the step that copies the textures of a material goes on to the next
\* submesh: ParseSdfMaterial has returned true
CopyStepContinues ==
  \A t \in Threads :
    call'[t].copies # call[t].copies /\ call[t].pc # "done" =>
      call'[t].pc = "loop" /\ call'[t].i = call[t].i + 1

\* C11: a texture copy failure is never fatal.  For each of the albedo,
\* metalness, normal and roughness channels whose map reference is non-empty
\* the texture input of the shader is materials/textures/<basename of the
\* reference> whether or not the copy succeeded (the source of the copy is
\* the reference itself when the file is not found), and ParseSdfMaterial
\* and UpdateMesh go on to return true; a channel with an empty reference
\* gets no input and no copy.
TextureCopyNeverFatal ==
  /\ [](TextureInputsAsClaimed /\ TextureCopiesAsClaimed /\ NoTextureReturn)
  /\ [][CopyStepContinues]_vars

\* a call that has returned true after a copy, of a file not found, failed:
\* the input is on the shader, and another channel of the material is empty
TextureCopyWitness ==
  \E t \in Active :
    /\ call[t].pc = "done" /\ call[t].result = "true"
    /\ \E k \in 1..Len(call[t].copies) :
         LET e == call[t].copies[k]
         IN /\ ~e.ok /\ ~e.found
            /\ e.attr = "diffuse_texture"
            /\ stageMat[e.n].inputs[e.attr] = "materials/textures/a.png"
            /\ "normalmap_texture" \notin DOMAIN stageMat[e.n].inputs

(***************************************************************************)
(* C12                                                                     *)
(***************************************************************************)
\* the step emits a prim: some call has one more entry in emits
Emits(t) == Len(call'[t].emits) = Len(call[t].emits) + 1

\* a step leaves every prim of the stage with the geometry it had, and the
\* prim a step emits is at a path where the stage had none
GeometryStepWriteOnce ==
  /\ \A p \in DOMAIN stageGeom :
       /\ p \in DOMAIN stageGeom'
       /\ stageGeom'[p].faceVertexCounts = stageGeom[p].faceVertexCounts
       /\ stageGeom'[p].nIndices = stageGeom[p].nIndices
  /\ \A t \in Threads :
       Emits(t) =>
         call'[t].emits[Len(call'[t].emits)].prim \notin DOMAIN stageGeom

\* C12: the scene only grows and emitted geometry is write-once.  Across any
\* sequence of UpdateMesh calls each geometry prim is created once, for one
\* submesh, and its attributes are set once: no call and no later submesh of
\* the same call updates a prim emitted before, also when two submesh names
\* sanitize to the same path or the same target path is converted again.
GeometryWriteOnce == [][GeometryStepWriteOnce]_vars

(***************************************************************************)
(* C13                                                                     *)
(***************************************************************************)
\* the increments of the counter that have been completed: one for each
\* material logged and one for each call between its increment and its log
IncrementsDone ==
  Len(matLog) + Cardinality({t \in Threads : call[t].pc = "mat_define"})

\* no call so far has run while another was in progress
NeverOverlapped ==
  /\ \A t \in Threads : ~call[t].overlap
  /\ \A k \in 1..Len(matLog) : ~matLog[k].overlap

\* C13: the counter of ParseSdfMaterial is unsafe under concurrent calls
\* only.  A material emission has the /Looks/Material_<n> path of an
\* earlier one only when it, or an emission before it, is of a call that ran
\* while a call of another thread was in progress, and as long as no two
\* calls have overlapped no increment is lost and no path is repeated.
CounterUnsafeOnlyWhenConcurrent ==
  /\ \A j \in 1..Len(matLog) : \A k \in (j + 1)..Len(matLog) :
       matLog[j].n = matLog[k].n =>
         \E i \in 1..k : matLog[i].overlap
  /\ NeverOverlapped =>
       /\ counter = IncrementsDone
       /\ \A k \in 1..Len(matLog) : matLog[k].n = k - 1 /\ matLog[k].new

\* two calls on different threads have returned true with one material
\* each, both at the same path, and the counter has advanced by one only
CounterRaceWitness ==
  /\ \A t \in Threads : call[t].pc = "done" /\ call[t].result = "true"
  /\ Len(matLog) = 2
  /\ matLog[1].n = matLog[2].n
  /\ matLog[1].thread # matLog[2].thread
  /\ ~matLog[2].new
  /\ counter = 1

(***************************************************************************)
(* C14                                                                     *)
(***************************************************************************)
\* the retries that have returned
RetryDone == {t \in Active : call[t].retry /\ call[t].pc = "done"}

SafePath(p) ==
  /\ \A i \in 1..Len(p) :
       /\ p[i] \notin {" "} \cup Punct
       /\ (i = 1 \/ p[i - 1] = "/") => ~isdigit(p[i])
  /\ Len(p) > 0 => p[Len(p)] # "/"

\* C15: every geometry prim path handed to the stage, validPath(_path + "/"
\* + name) with one trailing "/" erased, is safe as a scene-graph path: no
\* segment starts with a digit, none holds a space or one of . - < > [ ], and
\* the path does not end in "/", whatever the target path and the submesh
\* name (an empty name and a name starting with a digit among them).
PrimPathsSafe ==
  \A t \in Active :
    \A k \in 1..Len(call[t].emits) : SafePath(call[t].emits[k].prim)

====
